---- MODULE Spec2Model ----
(***************************************************************************)
(* Flash-memory-cards: the card repository (pages/Index.tsx), the creation *)
(* form (components/CreateFlashcard.tsx), the study session                *)
(* (components/StudyMode.tsx) and the storage hook                         *)
(* (hooks/useLocalStorage.ts), as one state machine.                       *)
(*                                                                         *)
(* One action is one browser event (a click, a key press, a timer firing,  *)
(* a page reload) together with the renders and effects React runs before  *)
(* the next event is handled.  Indices are 0-based as in the source; the   *)
(* TLA+ sequences are 1-based, so filteredCards[currentIndex] of the       *)
(* source is FilteredCards[currentIndex + 1] here.                         *)
(***************************************************************************)
EXTENDS Integers, Sequences, FiniteSets, TLC

\* ------------------------------------------------------------------ bounds
MaxCards == 2       \* cards created in one run
MaxReviews == 2     \* toggles of one card
MaxTimers == 1      \* auto-advance timers pending at once

\* ------------------------------------------------------------------ inputs
\* Math.random() suffixes of generateId
Rands == {0}
\* tag lists the creation form can hold (no duplicates inside one list);
\* "x" and "X" differ only in case
TagLists == {<<>>, <<"x">>, <<"x", "X">>}
\* raw text typed into the question and answer fields
QuestionInputs == {<<>>, <<" ">>, <<"q">>, <<" ", "q", " ">>}
AnswerInputs == {<<>>, <<" ">>, <<"a">>, <<" ", "a", " ">>}
Views == {"home", "create", "study", "analytics"}

VARIABLES
    flashcards,     \* Index: flashcards (in-memory repository)
    currentView,    \* Index: currentView
    firstCardTimer, \* Index: the number of pending 1500 ms "Ready to Study!" timeouts
    isFlipped,      \* StudyMode: isFlipped
    currentIndex,   \* StudyMode: currentIndex (the cursor)
    selectedTag,    \* StudyMode: selectedTag
    showMastered,   \* StudyMode: showMastered
    reviewedCards,  \* StudyMode: reviewedCards
    studySession,   \* StudyMode: studySession
    keyLen,         \* filteredCards.length seen by the registered keydown listener
    timers,         \* pending 1000 ms auto-advance timeouts, oldest first
    localStorage,   \* window.localStorage, one field per key
    now,            \* Date.now(); every event that reads it happens in a later millisecond
    toast,          \* title of the toast the last event raised, "none" if it raised none
    storageFull,    \* window.localStorage is out of quota: setItem throws
    saved           \* history: the session as it was when the study screen was torn
                    \* down, and whether the page was reloaded since

vars == <<flashcards, currentView, firstCardTimer, isFlipped, currentIndex,
          selectedTag, showMastered, reviewedCards, studySession, keyLen,
          timers, localStorage, now, toast, storageFull, saved>>

\* ------------------------------------------------------------- JS values
\* lastReviewed?: Date -- undefined, a Date, or (after JSON.parse) a string
Undefined == [kind |-> "undefined", ms |-> 0]
DateOf(t) == [kind |-> "Date", ms |-> t]
IsoString(t) == [kind |-> "string", ms |-> t]

\* String.prototype.trim on a sequence of characters
RECURSIVE TrimLeft(_)
TrimLeft(s) ==
    IF s = <<>> THEN s
    ELSE IF Head(s) = " " THEN TrimLeft(Tail(s)) ELSE s

RECURSIVE TrimRight(_)
TrimRight(s) ==
    IF s = <<>> THEN s
    ELSE IF s[Len(s)] = " " THEN TrimRight(SubSeq(s, 1, Len(s) - 1)) ELSE s

Trim(s) == TrimRight(TrimLeft(s))

\* Array.prototype.includes
Includes(seq, x) == \E i \in 1..Len(seq) : seq[i] = x

\* ------------------------------------------------------------------ JSON
\* JSON.stringify of one card: a Date becomes its ISO string, an undefined
\* property is left out (read back as undefined).
StringifyCard(card) ==
    [card EXCEPT !.lastReviewed =
        IF card.lastReviewed.kind = "Date" THEN IsoString(card.lastReviewed.ms)
        ELSE IF card.lastReviewed.kind = "string" THEN card.lastReviewed
        ELSE Undefined]

StringifyCards(cards) == [i \in 1..Len(cards) |-> StringifyCard(cards[i])]

\* faulty variant: the stored text of lastReviewed is kept as it is
ParseDateSkipped(card) == card

\* Index.tsx effect "Parse dates from localStorage": new Date(card.lastReviewed)
ParseDate(card) ==
    [card EXCEPT !.lastReviewed =
        IF card.lastReviewed.kind = "undefined" THEN Undefined
        ELSE DateOf(card.lastReviewed.ms)]

\* Index.tsx effect: prev.map(card => ({...card, lastReviewed: ..}))
ParseDates(cards) == [i \in 1..Len(cards) |-> ParseDate(cards[i])]

\* reviewedCards is a Set in memory; JSON.stringify(new Set(..)) is "{}",
\* which JSON.parse reads back as a plain object without keys.
SetOf(ids) == [kind |-> "Set", ids |-> ids]
PlainObject == [kind |-> "object", ids |-> {}]
StringifySet(v) == PlainObject

\* a localStorage entry: getItem gives null (present = FALSE) or a text,
\* which is the JSON of a value v (json = TRUE) or something JSON.parse
\* rejects, the empty text included
NoItem(dflt) == [present |-> FALSE, json |-> FALSE, v |-> dflt]
Item(v) == [present |-> TRUE, json |-> TRUE, v |-> v]
BadItem(dflt) == [present |-> TRUE, json |-> FALSE, v |-> dflt]

\* JSON.parse(item): it throws a SyntaxError or gives the value
JSONParse(item) == [threw |-> ~item.json, v |-> item.v]

\* faulty variant: the stored entry is never read
LoadIgnoresEntry(item, initialValue) == initialValue

\* useLocalStorage initial state: try { item ? JSON.parse(item) : initialValue }
\* catch { initialValue }
Load(item, initialValue) ==
    IF ~item.present THEN initialValue
    ELSE IF JSONParse(item).threw THEN initialValue
    ELSE JSONParse(item).v

\* useLocalStorage setValue: window.localStorage.setItem(key, JSON.stringify(v));
\* setItem throws (QuotaExceededError) when the storage is full, the catch
\* logs it and the entry keeps its content
SetItem(ls, key, v) == IF storageFull THEN ls ELSE [ls EXCEPT ![key] = Item(v)]

\* ------------------------------------------------------- derived values
\* faulty variant: a tag comparison that ignores case
OtherCase(tag) == IF tag = "x" THEN "X" ELSE IF tag = "X" THEN "x" ELSE tag
TagMatchesAnyCase(card, tag) ==
    Includes(card.tags, tag) \/ Includes(card.tags, OtherCase(tag))

\* StudyMode.tsx filteredCards (useMemo over flashcards, selectedTag, showMastered)
TagMatches(card, tag) == Includes(card.tags, tag)

FilterCards(cards, tag, withMastered) ==
    LET byTag == IF tag # "all"
                 THEN SelectSeq(cards, LAMBDA card : TagMatches(card, tag))
                 ELSE cards
    IN  IF ~withMastered
        THEN SelectSeq(byTag, LAMBDA card : ~card.mastered)
        ELSE byTag

filteredCards == FilterCards(flashcards, selectedTag, showMastered)

\* StudyMode.tsx allTags
allTags == UNION {{flashcards[i].tags[j] : j \in 1..Len(flashcards[i].tags)} :
                    i \in 1..Len(flashcards)}

\* StudyMode.tsx: const currentCard = filteredCards[currentIndex]
HasCard(view, idx) == idx >= 0 /\ idx < Len(view)
hasCurrentCard == HasCard(filteredCards, currentIndex)
currentCard == filteredCards[currentIndex + 1]

\* the value React compares for the dependency currentCard: the object, which
\* is replaced on every update of the card, or undefined
CardRef(view, idx) ==
    IF HasCard(view, idx)
    THEN [defined |-> TRUE, id |-> view[idx + 1].id, version |-> view[idx + 1].reviewCount]
    ELSE [defined |-> FALSE, id |-> <<0, 0>>, version |-> 0]

mounted == currentView = "study"

\* faulty variant: the render without its "All Cards Mastered!" return
ScreenWithoutAllMastered(cards, view, idx) ==
    IF Len(cards) = 0 THEN "No Flashcards Available"
    ELSE IF ~HasCard(view, idx) THEN "No Cards Available"
    ELSE "Study Session"

\* StudyMode.tsx render: the three terminal returns, by their headings, and
\* the study card
Screen(cards, view, idx) ==
    IF Len(cards) = 0 THEN "No Flashcards Available"
    ELSE IF Len(view) = 0 THEN "All Cards Mastered!"
    ELSE IF ~HasCard(view, idx) THEN "No Cards Available"
    ELSE "Study Session"

screen == Screen(flashcards, filteredCards, currentIndex)

\* the study screen renders a card and its controls (none of the three
\* terminal returns of StudyMode.tsx is taken)
cardShown == mounted /\ screen = "Study Session"

\* ------------------------------------------------------------------- Init
\* values the study variables hold while StudyMode is not mounted
\* studySession is kept without its timestamps (startTime, reviewedAt): nothing
\* reads them
NoSession == [cardsReviewed |-> 0, sessionProgress |-> {}]
NoSnapshot == [valid |-> FALSE, currentIndex |-> 0, selectedTag |-> "all",
               showMastered |-> FALSE, reviewedCards |-> SetOf({}),
               reloaded |-> FALSE]

Unmounted ==
    /\ isFlipped' = FALSE
    /\ currentIndex' = 0
    /\ selectedTag' = "all"
    /\ showMastered' = FALSE
    /\ reviewedCards' = SetOf({})
    /\ studySession' = NoSession
    /\ keyLen' = 0

EmptyStorage ==
    [cards |-> NoItem(<<>>),            \* flashmaster-cards
     currentIndex |-> NoItem(0),        \* study-current-index
     selectedTag |-> NoItem("all"),     \* study-selected-tag
     reviewedCards |-> NoItem(PlainObject), \* study-reviewed-cards
     showMastered |-> NoItem(FALSE),    \* study-show-mastered
     studySession |-> NoItem(NoSession)] \* study-session

\* first load in a browser whose storage holds nothing: Index mounts on the
\* home view and its date-parsing effect writes the (empty) repository back
Init ==
    /\ flashcards = <<>>
    /\ currentView = "home"
    /\ firstCardTimer = 0
    /\ isFlipped = FALSE
    /\ currentIndex = 0
    /\ selectedTag = "all"
    /\ showMastered = FALSE
    /\ reviewedCards = SetOf({})
    /\ studySession = NoSession
    /\ keyLen = 0
    /\ timers = <<>>
    /\ localStorage = [EmptyStorage EXCEPT !.cards = Item(<<>>)]
    /\ now = 0
    /\ toast = "none"
    /\ storageFull = FALSE
    /\ saved = NoSnapshot

\* ------------------------------------------------------ StudyMode: mount
\* faulty variant: the reset effect leaves the cursor where it was
ResetIndexKept(idx) == idx

\* StudyMode.tsx effect "Reset when filters change"; it also runs after the
\* first render of a mount
ResetIndex(idx) == 0

\* the snapshot of the session taken when the study screen is torn down
Snapshot == [valid |-> TRUE, currentIndex |-> currentIndex,
             selectedTag |-> selectedTag, showMastered |-> showMastered,
             reviewedCards |-> reviewedCards, reloaded |-> FALSE]

\* StudyMode mounts over repository cards and storage ls: the useLocalStorage
\* initialisers read the entries, then the effects run (the reset effect and
\* the registration of the keydown listener)
MountStudy(cards, ls) ==
    LET tag == Load(ls.selectedTag, "all")
        show == Load(ls.showMastered, FALSE)
        idx == Load(ls.currentIndex, 0)
    IN  /\ selectedTag' = tag
        /\ showMastered' = show
        /\ currentIndex' = ResetIndex(idx)
        /\ isFlipped' = FALSE
        /\ reviewedCards' = Load(ls.reviewedCards, SetOf({}))
        /\ studySession' = Load(ls.studySession, NoSession)
        /\ keyLen' = Len(FilterCards(cards, tag, show))
        /\ localStorage' = SetItem(ls, "currentIndex", ResetIndex(idx))

\* timeouts are not cleared on unmount: they stay pending, bound to the
\* setters of the instance that is gone
Orphaned(ts) == [i \in 1..Len(ts) |-> [ts[i] EXCEPT !.live = FALSE]]

\* Index.tsx handleViewChange, from Navigation, HomePage or a "Back to Home" button
handleViewChange(v) ==
    /\ v # currentView
    /\ currentView' = v
    /\ IF mounted
       THEN /\ Unmounted
            /\ timers' = Orphaned(timers)
            /\ saved' = Snapshot
            /\ UNCHANGED localStorage
       ELSE IF v = "study"
       THEN /\ MountStudy(flashcards, localStorage)
            /\ saved' = NoSnapshot
            /\ UNCHANGED timers
       ELSE UNCHANGED <<isFlipped, currentIndex, selectedTag, showMastered,
                        reviewedCards, studySession, keyLen, timers,
                        localStorage, saved>>
    /\ toast' = "none"
    /\ UNCHANGED <<flashcards, firstCardTimer, now, storageFull>>

\* the page is reloaded: memory and pending timeouts are gone, Index mounts
\* on the home view from the stored repository and its date-parsing effect
\* writes the repository back
Reload ==
    /\ flashcards' = ParseDates(Load(localStorage.cards, <<>>))
    /\ localStorage' = SetItem(localStorage, "cards", StringifyCards(flashcards'))
    /\ currentView' = "home"
    /\ firstCardTimer' = 0
    /\ timers' = <<>>
    /\ Unmounted
    /\ toast' = "none"
    /\ saved' = [(IF mounted THEN Snapshot ELSE saved) EXCEPT !.reloaded = TRUE]
    /\ UNCHANGED <<now, storageFull>>

\* ------------------------------------------------- Index: the repository
\* faulty variant: an id made of the random suffix alone
generateIdRandomOnly(time, rand) == <<0, rand>>

\* Index.tsx generateId: Date.now().toString(36) + Math.random().toString(36).substr(2)
generateId(time, rand) == <<time, rand>>

\* faulty variant: the validation without trim()
RejectedUntrimmed(question, answer) == question = <<>> \/ answer = <<>>

\* CreateFlashcard.tsx handleSubmit: the validation
Rejected(question, answer) == Trim(question) = <<>> \/ Trim(answer) = <<>>

\* CreateFlashcard.tsx handleSubmit: newFlashcard, and the id of handleFlashcardCreate
NewFlashcard(question, answer, tags, id) ==
    [id |-> id,
     question |-> Trim(question),
     answer |-> Trim(answer),
     tags |-> tags,
     mastered |-> FALSE,
     reviewCount |-> 0,
     lastReviewed |-> Undefined]

\* faulty variant: the new card is put in front
handleFlashcardCreateFirst(cards, card) == <<card>> \o cards

\* Index.tsx handleFlashcardCreate: setFlashcards(prev => [...prev, flashcard])
handleFlashcardCreate(cards, card) == Append(cards, card)

\* faulty variant: every create schedules the notification
FirstCardAlways(cards) == TRUE

\* Index.tsx handleFlashcardCreate: if (flashcards.length === 0) setTimeout(..)
FirstCard(cards) == Len(cards) = 0

\* faulty variant: a card whose id no card has is added to the repository
handleFlashcardUpsert(cards, updatedCard) ==
    IF \E i \in 1..Len(cards) : cards[i].id = updatedCard.id
    THEN [i \in 1..Len(cards) |->
            IF cards[i].id = updatedCard.id THEN updatedCard ELSE cards[i]]
    ELSE Append(cards, updatedCard)

\* Index.tsx handleFlashcardUpdate: prev.map(card => card.id === updatedCard.id ? updatedCard : card)
handleFlashcardUpdate(cards, updatedCard) ==
    [i \in 1..Len(cards) |->
        IF cards[i].id = updatedCard.id THEN updatedCard ELSE cards[i]]

\* faulty variant: the repository is changed in memory only
StoreCardsDropped(ls, cards) == ls

\* useLocalStorage setValue on flashmaster-cards
StoreCards(ls, cards) == SetItem(ls, "cards", StringifyCards(cards))

\* CreateFlashcard.tsx handleSubmit with the form holding question, answer and
\* tags; rand is the Math.random() of generateId.  The next submission
\* happens in a later millisecond.
handleSubmit(question, answer, tags, rand) ==
    /\ currentView = "create"
    /\ IF Rejected(question, answer)
       THEN /\ toast' = "Missing Information"
            /\ UNCHANGED <<flashcards, firstCardTimer, localStorage, now>>
       ELSE /\ Len(flashcards) < MaxCards
            /\ flashcards' = handleFlashcardCreate(flashcards,
                   NewFlashcard(question, answer, tags, generateId(now, rand)))
            /\ localStorage' = StoreCards(localStorage, flashcards')
            /\ firstCardTimer' = firstCardTimer + (IF FirstCard(flashcards) THEN 1 ELSE 0)
            /\ toast' = "Flashcard Created!"
            /\ now' = now + 1
    /\ UNCHANGED <<currentView, isFlipped, currentIndex, selectedTag, showMastered,
                   reviewedCards, studySession, keyLen, timers, storageFull, saved>>

\* Index.tsx handleFlashcardCreate: the 1500 ms timeout fires
FirstCardTimerFire ==
    /\ firstCardTimer > 0
    /\ firstCardTimer' = firstCardTimer - 1
    /\ toast' = "Ready to Study!"
    /\ currentView' = "study"
    /\ IF mounted
       THEN UNCHANGED <<isFlipped, currentIndex, selectedTag, showMastered,
                        reviewedCards, studySession, keyLen, localStorage, saved>>
       ELSE /\ MountStudy(flashcards, localStorage)
            /\ saved' = NoSnapshot
    /\ UNCHANGED <<flashcards, timers, now, storageFull>>

\* ------------------------------------------------ StudyMode: the session
\* the dependency list [isFlipped, currentIndex, currentCard] of the effect
\* that registers the keydown listener
KeyDeps == <<isFlipped, currentIndex, CardRef(filteredCards, currentIndex)>>

\* the listener is registered again, over the handlers of the new render,
\* only when a dependency changed; otherwise the old listener stays, with
\* the filteredCards of the render that registered it
KeyListener == keyLen' = IF KeyDeps' # KeyDeps THEN Len(filteredCards') ELSE keyLen

StoreIndex(ls, idx) == SetItem(ls, "currentIndex", idx)

\* StudyMode.tsx handleNext, over the currentIndex and filteredCards.length of
\* the render that created the handler
CanNext(idx, len) == idx < len - 1
NextIndex(idx, len) == IF CanNext(idx, len) THEN idx + 1 ELSE idx

\* StudyMode.tsx handlePrevious
CanPrevious(idx) == idx > 0
PreviousIndex(idx) == IF CanPrevious(idx) THEN idx - 1 ELSE idx

\* faulty variant: handleNext without setIsFlipped(false)
handleNextKeepsFace(len) ==
    /\ IF CanNext(currentIndex, len)
       THEN /\ currentIndex' = NextIndex(currentIndex, len)
            /\ localStorage' = StoreIndex(localStorage, currentIndex')
       ELSE UNCHANGED <<currentIndex, localStorage>>
    /\ toast' = "none"
    /\ UNCHANGED <<flashcards, currentView, firstCardTimer, isFlipped, selectedTag,
                   showMastered, reviewedCards, studySession, timers, now,
                   storageFull, saved>>
    /\ KeyListener

handleNext(len) ==
    /\ IF CanNext(currentIndex, len)
       THEN /\ currentIndex' = NextIndex(currentIndex, len)
            /\ isFlipped' = FALSE
            /\ localStorage' = StoreIndex(localStorage, currentIndex')
       ELSE UNCHANGED <<currentIndex, isFlipped, localStorage>>
    /\ toast' = "none"
    /\ UNCHANGED <<flashcards, currentView, firstCardTimer, selectedTag, showMastered,
                   reviewedCards, studySession, timers, now, storageFull, saved>>
    /\ KeyListener

handlePrevious ==
    /\ IF CanPrevious(currentIndex)
       THEN /\ currentIndex' = PreviousIndex(currentIndex)
            /\ isFlipped' = FALSE
            /\ localStorage' = StoreIndex(localStorage, currentIndex')
       ELSE UNCHANGED <<currentIndex, isFlipped, localStorage>>
    /\ toast' = "none"
    /\ UNCHANGED <<flashcards, currentView, firstCardTimer, selectedTag, showMastered,
                   reviewedCards, studySession, timers, now, storageFull, saved>>
    /\ KeyListener

\* StudyMode.tsx handleFlip
handleFlip ==
    /\ isFlipped' = ~isFlipped
    /\ toast' = "none"
    /\ UNCHANGED <<flashcards, currentView, firstCardTimer, currentIndex, selectedTag,
                   showMastered, reviewedCards, studySession, timers, localStorage,
                   now, storageFull, saved>>
    /\ KeyListener

\* the Next button (disabled at the last index) and the ArrowRight key
ClickNext ==
    /\ cardShown
    /\ currentIndex # Len(filteredCards) - 1
    /\ handleNext(Len(filteredCards))

KeyArrowRight ==
    /\ mounted
    /\ handleNext(keyLen)

\* the Previous button (disabled at index 0) and the ArrowLeft key
ClickPrevious ==
    /\ cardShown
    /\ currentIndex # 0
    /\ handlePrevious

KeyArrowLeft ==
    /\ mounted
    /\ handlePrevious

\* a click on the card and the space key
ClickFlip ==
    /\ cardShown
    /\ handleFlip

KeySpace ==
    /\ mounted
    /\ handleFlip

\* StudyMode.tsx handleShuffle: Math.floor(Math.random() * filteredCards.length);
\* the button is disabled when filteredCards.length <= 1
handleShuffle(r) ==
    /\ cardShown
    /\ Len(filteredCards) > 1
    /\ r \in 0..(Len(filteredCards) - 1)
    /\ currentIndex' = r
    /\ isFlipped' = FALSE
    /\ localStorage' = StoreIndex(localStorage, r)
    /\ toast' = "Cards shuffled"
    /\ UNCHANGED <<flashcards, currentView, firstCardTimer, selectedTag, showMastered,
                   reviewedCards, studySession, timers, now, storageFull, saved>>
    /\ KeyListener

\* the effect "Reset when filters change", run when selectedTag or
\* showMastered differs from the previous render
FilterReset(changed, ls) ==
    IF changed
    THEN /\ currentIndex' = ResetIndex(currentIndex)
         /\ isFlipped' = FALSE
         /\ localStorage' = StoreIndex(ls, currentIndex')
    ELSE /\ UNCHANGED <<currentIndex, isFlipped>>
         /\ localStorage' = ls

\* the category Select: onValueChange = setSelectedTag
SelectTag(tag) ==
    /\ cardShown
    /\ tag \in {"all"} \cup allTags
    /\ selectedTag' = tag
    /\ FilterReset(tag # selectedTag,
                   SetItem(localStorage, "selectedTag", tag))
    /\ toast' = "none"
    /\ UNCHANGED <<flashcards, currentView, firstCardTimer, showMastered,
                   reviewedCards, studySession, timers, now, storageFull, saved>>
    /\ KeyListener

\* "Review Mastered Cards" on the "All Cards Mastered!" screen: setShowMastered(true)
ClickReviewMastered ==
    /\ mounted
    /\ screen = "All Cards Mastered!"
    /\ showMastered' = TRUE
    /\ FilterReset(~showMastered,
                   SetItem(localStorage, "showMastered", TRUE))
    /\ toast' = "none"
    /\ UNCHANGED <<flashcards, currentView, firstCardTimer, selectedTag,
                   reviewedCards, studySession, timers, now, storageFull, saved>>
    /\ KeyListener

\* --------------------------------------------- StudyMode: handleMastered
\* faulty variant: a review is counted only when the card becomes mastered
UpdatedCardCountsMastering(card, time) ==
    [card EXCEPT !.mastered = ~card.mastered,
                 !.reviewCount = IF card.mastered THEN card.reviewCount
                                 ELSE card.reviewCount + 1,
                 !.lastReviewed = DateOf(time)]

\* faulty variant: unmarking a card starts its count again
UpdatedCardRestartsCount(card, time) ==
    [card EXCEPT !.mastered = ~card.mastered,
                 !.reviewCount = IF card.mastered THEN 0 ELSE card.reviewCount + 1,
                 !.lastReviewed = DateOf(time)]

\* faulty variant: the date of the review is recorded only when the card
\* becomes mastered, and removed when it is unmarked
UpdatedCardDatesMastering(card, time) ==
    [card EXCEPT !.mastered = ~card.mastered,
                 !.reviewCount = card.reviewCount + 1,
                 !.lastReviewed = IF card.mastered THEN Undefined
                                  ELSE DateOf(time)]

\* StudyMode.tsx handleMastered: updatedCard
UpdatedCard(card, time) ==
    [card EXCEPT !.mastered = ~card.mastered,
                 !.reviewCount = card.reviewCount + 1,
                 !.lastReviewed = DateOf(time)]

\* faulty variant: the advance is scheduled after every toggle
SchedulesAdvanceAlways(card) == TRUE

\* StudyMode.tsx handleMastered: if (!currentCard.mastered) setTimeout(..)
SchedulesAdvance(card) == ~card.mastered

\* new Set(reviewedCards) throws a TypeError unless reviewedCards is iterable
Iterable(v) == v.kind = "Set"

\* setStudySession(prev => ..)
SessionAfter(session, card) ==
    [session EXCEPT
        !.cardsReviewed = session.cardsReviewed + 1,
        !.sessionProgress =
            {e \in session.sessionProgress : e.id # card.id}
            \cup {[id |-> card.id, mastered |-> ~card.mastered]}]

\* the id of the card behind position idx of the view, if there is one
Follower(view, idx) == IF HasCard(view, idx + 1) THEN <<view[idx + 2].id>> ELSE <<>>

\* the timeout of handleMastered: it holds the currentIndex and the
\* filteredCards.length of the render that created the handler (idx, len);
\* fromMastered, atLast and next record the call for the properties below
AdvanceTimer(card, idx, len) ==
    [idx |-> idx, len |-> len, live |-> TRUE,
     fromMastered |-> card.mastered,
     atLast |-> (currentIndex = Len(filteredCards) - 1),
     next |-> Follower(filteredCards, currentIndex)]

\* handleMastered: if (!currentCard) return
handleMasteredReturn ==
    /\ toast' = "none"
    /\ UNCHANGED <<flashcards, currentView, firstCardTimer, isFlipped, currentIndex,
                   selectedTag, showMastered, reviewedCards, studySession, keyLen,
                   timers, localStorage, now, storageFull, saved>>

\* handleMastered past its first line, created by a render that saw
\* filteredCards.length = len.  The repository is updated first; when
\* reviewedCards is not iterable the handler stops there with an uncaught
\* TypeError.
handleMasteredCard(len) ==
    /\ currentCard.reviewCount < MaxReviews
    /\ LET card == currentCard
       IN  /\ flashcards' = handleFlashcardUpdate(flashcards, UpdatedCard(card, now))
           /\ IF Iterable(reviewedCards)
              THEN /\ reviewedCards' = SetOf(reviewedCards.ids \cup {card.id})
                   /\ studySession' = SessionAfter(studySession, card)
                   /\ localStorage' =
                        SetItem(SetItem(StoreCards(localStorage, flashcards'),
                                        "reviewedCards", StringifySet(reviewedCards')),
                                "studySession", studySession')
                   /\ toast' = IF card.mastered THEN "Card unmarked" ELSE "Card mastered!"
                   /\ IF SchedulesAdvance(card)
                      THEN /\ Len(timers) < MaxTimers
                           /\ timers' = Append(timers, AdvanceTimer(card, currentIndex, len))
                      ELSE UNCHANGED timers
              ELSE /\ localStorage' = StoreCards(localStorage, flashcards')
                   /\ toast' = "none"
                   /\ UNCHANGED <<reviewedCards, studySession, timers>>
    /\ now' = now + 1
    /\ UNCHANGED <<currentView, firstCardTimer, isFlipped, currentIndex, selectedTag,
                   showMastered, storageFull, saved>>
    /\ KeyListener

\* faulty variant: without the first line, a review is counted in the study
\* session although there is no current card
handleMasteredWithoutReturn(len) ==
    IF ~hasCurrentCard
    THEN /\ studySession' = [studySession EXCEPT !.cardsReviewed = @ + 1]
         /\ toast' = "Card mastered!"
         /\ UNCHANGED <<flashcards, currentView, firstCardTimer, isFlipped,
                        currentIndex, selectedTag, showMastered, reviewedCards,
                        keyLen, timers, localStorage, now, storageFull, saved>>
    ELSE handleMasteredCard(len)

\* StudyMode.tsx handleMastered
handleMastered(len) ==
    IF ~hasCurrentCard THEN handleMasteredReturn ELSE handleMasteredCard(len)

\* the Mastered / Unmark button (rendered when flipped) and the m key
ClickMastered ==
    /\ cardShown
    /\ isFlipped
    /\ handleMastered(Len(filteredCards))

KeyM ==
    /\ mounted
    /\ isFlipped
    /\ handleMastered(keyLen)

\* the 1000 ms timeout of handleMastered fires: if (currentIndex <
\* filteredCards.length - 1) handleNext(), over the values the timeout holds.
\* A timeout of an unmounted instance only reaches the storage.
TimerFire ==
    /\ timers # <<>>
    /\ LET t == Head(timers)
       IN  /\ timers' = Tail(timers)
           /\ IF CanNext(t.idx, t.len)
              THEN /\ localStorage' = StoreIndex(localStorage, NextIndex(t.idx, t.len))
                   /\ IF t.live
                      THEN /\ currentIndex' = NextIndex(t.idx, t.len)
                           /\ isFlipped' = FALSE
                      ELSE UNCHANGED <<currentIndex, isFlipped>>
              ELSE UNCHANGED <<currentIndex, isFlipped, localStorage>>
    /\ toast' = "none"
    /\ UNCHANGED <<flashcards, currentView, firstCardTimer, selectedTag, showMastered,
                   reviewedCards, studySession, now, storageFull, saved>>
    /\ KeyListener

\* ------------------------------------------------------------- Analytics
\* a / b of two numbers, kept as a fraction (JavaScript gives the nearest
\* double)
Quotient(a, b) == [num |-> a, den |-> b]

\* Analytics.tsx: flashcards.reduce((sum, card) => sum + card.reviewCount, 0)
RECURSIVE ReduceReviewCount(_, _)
ReduceReviewCount(cards, sum) ==
    IF cards = <<>> THEN sum
    ELSE ReduceReviewCount(Tail(cards), sum + Head(cards).reviewCount)

\* faulty variant: the average over all cards
AverageReviewsOverAllCards(totalCards, reviewedCount, totalReviews) ==
    IF totalCards > 0 THEN Quotient(totalReviews, totalCards) ELSE Quotient(0, 1)

\* Analytics.tsx: reviewedCards > 0 ? totalReviews / reviewedCards : 0
AverageReviews(totalCards, reviewedCount, totalReviews) ==
    IF reviewedCount > 0 THEN Quotient(totalReviews, reviewedCount) ELSE Quotient(0, 1)

\* Analytics.tsx analytics (useMemo over flashcards)
analytics(cards) ==
    LET totalCards == Len(cards)
        masteredCards == Len(SelectSeq(cards, LAMBDA card : card.mastered))
        reviewedCount == Len(SelectSeq(cards, LAMBDA card : card.reviewCount > 0))
        totalReviews == ReduceReviewCount(cards, 0)
    IN  [totalCards |-> totalCards,
         masteredCards |-> masteredCards,
         reviewedCards |-> reviewedCount,
         totalReviews |-> totalReviews,
         completionRate |-> IF totalCards > 0
                            THEN Quotient(masteredCards * 100, totalCards)
                            ELSE Quotient(0, 1),
         averageReviews |-> AverageReviews(totalCards, reviewedCount, totalReviews)]

\* ------------------------------------------------------------------- Next
Next ==
    \/ \E v \in Views : handleViewChange(v)
    \/ Reload
    \/ \E question \in QuestionInputs, answer \in AnswerInputs,
          tags \in TagLists, rand \in Rands : handleSubmit(question, answer, tags, rand)
    \/ FirstCardTimerFire
    \/ ClickNext
    \/ KeyArrowRight
    \/ ClickPrevious
    \/ KeyArrowLeft
    \/ ClickFlip
    \/ KeySpace
    \/ \E r \in 0..MaxCards : handleShuffle(r)
    \/ \E tag \in {"all", "x", "X"} : SelectTag(tag)
    \/ ClickReviewMastered
    \/ ClickMastered
    \/ KeyM
    \/ TimerFire

Spec == Init /\ [][Next]_vars

TypeOK ==
    /\ currentView \in Views
    /\ currentIndex \in 0..MaxCards
    /\ Len(flashcards) <= MaxCards
    /\ Len(timers) <= MaxTimers

\* ------------------------------------------- the page over a used storage
\* The browser may hold entries of earlier sessions, entries that are not
\* JSON, and a storage that runs out of quota.

\* a card of an earlier session, the i-th created and toggled n times
StoredCard(i, n) ==
    [id |-> <<i - 1, 0>>,
     question |-> <<"q">>,
     answer |-> <<"a">>,
     tags |-> <<"x">>,
     mastered |-> (n % 2 = 1),
     reviewCount |-> n,
     lastReviewed |-> IF n > 0 THEN IsoString(i - 1) ELSE Undefined]

\* the repositories flashmaster-cards can hold: up to MaxCards cards
StoredRepositories ==
    {[i \in DOMAIN reviews |-> StoredCard(i, reviews[i])] :
        reviews \in UNION {[1..k -> 0..MaxReviews] : k \in 0..MaxCards}}

\* each key is missing, holds a text that is not JSON, or holds a value.
\* study-current-index, study-reviewed-cards and study-session, which no
\* load after the mount tells apart from their defaults, are of one kind
SessionEntries ==
    {[currentIndex |-> NoItem(0), reviewedCards |-> NoItem(PlainObject),
      studySession |-> NoItem(NoSession)],
     [currentIndex |-> BadItem(0), reviewedCards |-> BadItem(PlainObject),
      studySession |-> BadItem(NoSession)],
     [currentIndex |-> Item(1), reviewedCards |-> Item(PlainObject),
      studySession |-> Item([cardsReviewed |-> 1, sessionProgress |-> {}])]}

Storages ==
    {[cards |-> c, currentIndex |-> e.currentIndex, selectedTag |-> t,
      showMastered |-> m, reviewedCards |-> e.reviewedCards,
      studySession |-> e.studySession] :
        c \in {NoItem(<<>>), BadItem(<<>>)} \cup {Item(r) : r \in StoredRepositories},
        t \in {NoItem("all"), BadItem("all"), Item("x")},
        m \in {NoItem(FALSE), BadItem(FALSE), Item(TRUE)},
        e \in SessionEntries}

\* the page is loaded over a storage ls: Index mounts on the home view from
\* flashmaster-cards and its date-parsing effect writes the repository back
InitStored ==
    \E ls \in Storages :
        /\ flashcards = ParseDates(Load(ls.cards, <<>>))
        /\ localStorage = [ls EXCEPT !.cards = Item(StringifyCards(flashcards))]
        /\ currentView = "home"
        /\ firstCardTimer = 0
        /\ isFlipped = FALSE
        /\ currentIndex = 0
        /\ selectedTag = "all"
        /\ showMastered = FALSE
        /\ reviewedCards = SetOf({})
        /\ studySession = NoSession
        /\ keyLen = 0
        /\ timers = <<>>
        /\ now = MaxCards
        /\ toast = "none"
        /\ storageFull = FALSE
        /\ saved = NoSnapshot

\* the cards onFlashcardUpdate can be called with: of a stored id or of an id
\* no card has
UpdateInputs ==
    {[id |-> <<i, 0>>,
      question |-> <<"q">>,
      answer |-> <<"a">>,
      tags |-> <<>>,
      mastered |-> TRUE,
      reviewCount |-> 1,
      lastReviewed |-> DateOf(MaxCards)] : i \in 0..MaxCards}

\* Index.tsx handleFlashcardUpdate, the onFlashcardUpdate of the study screen
onFlashcardUpdate(updatedCard) ==
    /\ mounted
    /\ flashcards' = handleFlashcardUpdate(flashcards, updatedCard)
    /\ localStorage' = StoreCards(localStorage, flashcards')
    /\ toast' = "none"
    /\ UNCHANGED <<currentView, firstCardTimer, isFlipped, currentIndex, selectedTag,
                   showMastered, reviewedCards, studySession, timers, now,
                   storageFull, saved>>
    /\ KeyListener

\* the storage runs out of quota, or room is made again
QuotaExceeded ==
    /\ ~storageFull
    /\ storageFull' = TRUE
    /\ toast' = "none"
    /\ UNCHANGED <<flashcards, currentView, firstCardTimer, isFlipped, currentIndex,
                   selectedTag, showMastered, reviewedCards, studySession, keyLen,
                   timers, localStorage, now, saved>>

QuotaFreed ==
    /\ storageFull
    /\ storageFull' = FALSE
    /\ toast' = "none"
    /\ UNCHANGED <<flashcards, currentView, firstCardTimer, isFlipped, currentIndex,
                   selectedTag, showMastered, reviewedCards, studySession, keyLen,
                   timers, localStorage, now, saved>>

NextStored ==
    \/ \E v \in Views : handleViewChange(v)
    \/ Reload
    \/ \E card \in UpdateInputs : onFlashcardUpdate(card)
    \/ \E tag \in {"all", "x"} : SelectTag(tag)
    \/ ClickReviewMastered
    \/ QuotaExceeded
    \/ QuotaFreed

SpecStored == InitStored /\ [][NextStored]_vars

\* ============================================================== properties
\* the cursor points at a card of the filtered view
InBounds == 0 <= currentIndex /\ currentIndex < Len(filteredCards)

\* text that is empty or consists of spaces only
Blank(text) == \A i \in 1..Len(text) : text[i] = " "

\* a step of handleMastered past its first line, from the button or from the
\* m key
ToggleMastered == hasCurrentCard /\ (ClickMastered \/ KeyM)

\* C1: whenever the study screen is mounted and the filtered view is not
\* empty, 0 <= currentIndex < filteredCards.length.
C1_CursorInBounds == (mounted /\ Len(filteredCards) > 0) => InBounds

\* C2: when the auto-advance timeout of a mounted study screen fires, the
\* cursor becomes cursor + 1 if cursor <= len(view) - 2 for the cursor and the
\* view of the moment it fires, and stays otherwise.
C2_AdvanceUsesLiveState ==
    [][(TimerFire /\ Head(timers).live) =>
          currentIndex' = IF currentIndex <= Len(filteredCards) - 2
                          THEN currentIndex + 1
                          ELSE currentIndex]_vars

\* C3: a firing auto-advance timeout moves the cursor only if the toggle that
\* scheduled it turned an unmastered card into a mastered one while the cursor
\* was not at the last index of the view.
C3_AdvanceOnlyAfterMastering ==
    [][(TimerFire /\ currentIndex' # currentIndex) =>
          (~Head(timers).fromMastered /\ ~Head(timers).atLast)]_vars

\* C3 witness: a card was marked mastered away from the last index and its
\* advance is pending.
C3_Witness ==
    /\ timers # <<>>
    /\ Head(timers).live
    /\ ~Head(timers).fromMastered
    /\ ~Head(timers).atLast

\* C4: toggleMastered replaces the current card, at its place in the
\* repository, by a card with the same id, question, answer and tags, the
\* opposite mastered flag, reviewCount + 1 and lastReviewed a Date not earlier
\* than the call; the repository keeps its length.
C4_ToggleUpdatesCard ==
    [][ToggleMastered =>
          /\ Len(flashcards') = Len(flashcards)
          /\ \E i \in 1..Len(flashcards) :
                /\ flashcards[i].id = currentCard.id
                /\ flashcards'[i].id = currentCard.id
                /\ flashcards'[i].question = currentCard.question
                /\ flashcards'[i].answer = currentCard.answer
                /\ flashcards'[i].tags = currentCard.tags
                /\ flashcards'[i].mastered = ~currentCard.mastered
                /\ flashcards'[i].reviewCount = currentCard.reviewCount + 1
                /\ flashcards'[i].lastReviewed.kind = "Date"
                /\ flashcards'[i].lastReviewed.ms >= now]_vars

\* C4 witness: a card that was marked mastered and then unmarked.
C4_Witness ==
    \E i \in 1..Len(flashcards) :
        /\ flashcards[i].reviewCount = 2
        /\ ~flashcards[i].mastered
        /\ flashcards[i].lastReviewed.kind = "Date"

\* C5: a submission whose question and answer are not blank appends exactly
\* one card, with a new id, mastered = FALSE, reviewCount = 0 and no
\* lastReviewed, and leaves the cards before it as they were.
C5_CreateAppends ==
    [][currentView = "create" =>
       \A question \in QuestionInputs, answer \in AnswerInputs :
          (~Blank(question) /\ ~Blank(answer)) =>
          \A tags \in TagLists, rand \in Rands :
          handleSubmit(question, answer, tags, rand) =>
             /\ Len(flashcards') = Len(flashcards) + 1
             /\ SubSeq(flashcards', 1, Len(flashcards)) = flashcards
             /\ \A i \in 1..Len(flashcards) :
                   flashcards[i].id # flashcards'[Len(flashcards')].id
             /\ flashcards'[Len(flashcards')].tags = tags
             /\ ~Blank(flashcards'[Len(flashcards')].question)
             /\ ~Blank(flashcards'[Len(flashcards')].answer)
             /\ flashcards'[Len(flashcards')].mastered = FALSE
             /\ flashcards'[Len(flashcards')].reviewCount = 0
             /\ flashcards'[Len(flashcards')].lastReviewed = Undefined]_vars

\* C5 witness: a second card has just been created.
C5_Witness == Len(flashcards) = 2 /\ toast = "Flashcard Created!"

\* C6: a submission with a blank question or a blank answer changes neither
\* the repository, nor the stored flashmaster-cards entry, nor the view, and
\* schedules no first-card notification.
C6_BlankRejected ==
    [][\/ /\ flashcards' = flashcards
          /\ localStorage'.cards = localStorage.cards
          /\ currentView' = currentView
          /\ firstCardTimer' = firstCardTimer
       \/ \A question \in QuestionInputs, answer \in AnswerInputs :
             (Blank(question) \/ Blank(answer)) =>
             \A tags \in TagLists, rand \in Rands :
                ~handleSubmit(question, answer, tags, rand)]_vars

\* C6 witness: a submission has just been rejected.
C6_Witness == toast = "Missing Information"

\* C7: from a cursor inside the view, next() leaves the cursor at
\* len(view) - 1 when it is there and adds 1 otherwise; previous() leaves it
\* at 0 when it is there and subtracts 1 otherwise.
C7_NextPreviousClamp ==
    [][/\ ((ClickNext \/ KeyArrowRight) /\ InBounds) =>
             currentIndex' = IF currentIndex = Len(filteredCards) - 1
                             THEN currentIndex
                             ELSE currentIndex + 1
       /\ ((ClickPrevious \/ KeyArrowLeft) /\ InBounds) =>
             currentIndex' = IF currentIndex = 0
                             THEN currentIndex
                             ELSE currentIndex - 1]_vars

\* C8: the filtered view is the subsequence of the repository, in repository
\* order, of exactly the cards that carry selectedTag (any card when it is
\* "all") and that are unmastered unless showMastered.
C8_Matches(card) ==
    /\ selectedTag = "all" \/ \E j \in 1..Len(card.tags) : card.tags[j] = selectedTag
    /\ showMastered \/ ~card.mastered

C8_FilteredViewExact ==
    LET matching == {i \in 1..Len(flashcards) : C8_Matches(flashcards[i])}
        n == Len(filteredCards)
    IN  /\ n = Cardinality(matching)
        /\ \E pos \in [1..n -> matching] :
              /\ \A k \in 1..n : filteredCards[k] = flashcards[pos[k]]
              /\ \A k \in 1..n : \A l \in 1..n : k < l => pos[k] < pos[l]

\* C8 witness: a tag is selected and the view holds some, not all, cards.
C8_Witness ==
    /\ mounted
    /\ selectedTag # "all"
    /\ Len(filteredCards) > 0
    /\ Len(filteredCards) < Len(flashcards)

\* C9: a change of selectedTag or of showMastered to a different value ends
\* with currentIndex = 0 and isFlipped = FALSE.
C9_FilterChangeResets ==
    [][((SelectTag(selectedTag') \/ ClickReviewMastered)
        /\ (selectedTag' # selectedTag \/ showMastered' # showMastered)) =>
          (currentIndex' = 0 /\ isFlipped' = FALSE)]_vars

\* C9 witness: both filters have been changed.
C9_Witness == mounted /\ selectedTag # "all" /\ showMastered

\* C10: when the study screen is set up again after a teardown, currentIndex,
\* selectedTag and showMastered are what they were at the teardown.
C10_SessionSurvivesReload ==
    [][(~mounted /\ mounted' /\ saved.valid) =>
          /\ currentIndex' = saved.currentIndex
          /\ selectedTag' = saved.selectedTag
          /\ showMastered' = saved.showMastered]_vars

\* C11: when the study screen is set up again after a teardown and
\* study-reviewed-cards holds the set of ids that was saved, reviewedCards is
\* a set with exactly those ids.
C11_ReviewedCardsRoundTrip ==
    [][(~mounted /\ mounted' /\ saved.valid /\ Iterable(saved.reviewedCards)
        /\ localStorage.reviewedCards.present) =>
          (Iterable(reviewedCards') /\ reviewedCards'.ids = saved.reviewedCards.ids)]_vars

\* the cards a and b are equal field for field, lastReviewed being a
\* timestamp or unset
SameCard(a, b) ==
    /\ a.id = b.id
    /\ a.question = b.question
    /\ a.answer = b.answer
    /\ a.tags = b.tags
    /\ a.mastered = b.mastered
    /\ a.reviewCount = b.reviewCount
    /\ a.lastReviewed.kind \in {"Date", "undefined"}
    /\ a.lastReviewed = b.lastReviewed

\* C12: the repository loaded at startup from a storage that never failed
\* has the length and the order of the repository saved, and every card is
\* equal field for field to the card saved.
C12_RepositoryRoundTrip ==
    [][Reload =>
          /\ Len(flashcards') = Len(flashcards)
          /\ \A i \in 1..Len(flashcards) : SameCard(flashcards'[i], flashcards[i])]_vars

\* C12 witness: the page was reloaded over two cards, one never reviewed and
\* one reviewed.
C12_Witness ==
    /\ saved.reloaded
    /\ currentView = "home"
    /\ Len(flashcards) = 2
    /\ \E i, j \in 1..2 :
          /\ flashcards[i].lastReviewed.kind = "Date"
          /\ flashcards[j].lastReviewed.kind = "undefined"

\* what load(key, default) has to return for a stored entry
Expected(item, dflt) == IF item.present /\ item.json THEN item.v ELSE dflt

\* C13: every load returns the default when the key has no entry or the
\* stored text cannot be deserialized, and the deserialized value otherwise.
\* The loads are those of a mount of the study screen and the load of the
\* repository at startup.
C13_LoadNeverRaises ==
    [][/\ (~mounted /\ mounted') =>
             /\ selectedTag' = Expected(localStorage.selectedTag, "all")
             /\ showMastered' = Expected(localStorage.showMastered, FALSE)
             /\ reviewedCards' = Expected(localStorage.reviewedCards, SetOf({}))
             /\ studySession' = Expected(localStorage.studySession, NoSession)
       /\ Reload =>
             flashcards' = ParseDates(Expected(localStorage.cards, <<>>))]_vars

\* C13 witness: the study screen is mounted over a storage in which one key
\* is missing, one holds a text that is not JSON and one holds a value.
C13_Witness ==
    /\ mounted
    /\ ~localStorage.selectedTag.present /\ selectedTag = "all"
    /\ localStorage.reviewedCards.present /\ ~localStorage.reviewedCards.json
    /\ reviewedCards = SetOf({})
    /\ localStorage.showMastered.json /\ showMastered = TRUE

\* C14: while setItem fails, every save leaves the stored entries as they
\* were and the value in memory is the value the caller passed; that value
\* stays in memory until the page is reloaded, so a study screen set up again
\* without a reload has the selectedTag and showMastered it had; a reload
\* gives the repository that is stored.
C14_FailedSaveKeepsMemory ==
    [][/\ storageFull => localStorage' = localStorage
       /\ \A tag \in {"all", "x"} : SelectTag(tag) => selectedTag' = tag
       /\ ClickReviewMastered => showMastered' = TRUE
       /\ \A card \in UpdateInputs :
             onFlashcardUpdate(card) =>
                flashcards' = handleFlashcardUpdate(flashcards, card)
       /\ (~mounted /\ mounted' /\ saved.valid /\ ~saved.reloaded) =>
             /\ selectedTag' = saved.selectedTag
             /\ showMastered' = saved.showMastered
       /\ Reload =>
             flashcards' = ParseDates(Expected(localStorage.cards, <<>>))]_vars

\* C15: update(card) replaces the entry whose id is card.id by card, at its
\* position; the length, the order of the ids and every other card stay, and
\* the repository is unchanged when no card has that id.
C15_UpdateFrame ==
    [][\A card \in UpdateInputs :
          onFlashcardUpdate(card) =>
             /\ Len(flashcards') = Len(flashcards)
             /\ \A i \in 1..Len(flashcards) :
                   /\ flashcards'[i].id = flashcards[i].id
                   /\ flashcards'[i] = IF flashcards[i].id = card.id
                                       THEN card
                                       ELSE flashcards[i]
             /\ (\A i \in 1..Len(flashcards) : flashcards[i].id # card.id) =>
                   flashcards' = flashcards]_vars

\* C15 witness: of two cards, the second one was replaced by an update and
\* the first one is as it was loaded.
C15_Witness ==
    /\ Len(flashcards) = 2
    /\ flashcards[1].tags = <<"x">>
    /\ flashcards[2] \in UpdateInputs

\* the ids of the repository, in order
Ids(cards) == [i \in 1..Len(cards) |-> cards[i].id]

\* C16: in every step the sequence of card ids before it is a prefix of the
\* sequence of card ids after it, and no id occurs twice.
C16_AppendOnlyIds ==
    [][/\ Len(flashcards) <= Len(flashcards')
       /\ SubSeq(Ids(flashcards'), 1, Len(flashcards)) = Ids(flashcards)
       /\ \A i, j \in 1..Len(flashcards') :
             flashcards'[i].id = flashcards'[j].id => i = j]_vars

\* C16 witness: two cards were created and the first one was then toggled,
\* and the page was reloaded.
C16_Witness ==
    /\ Len(flashcards) = 2
    /\ flashcards[1].reviewCount > 0
    /\ saved.reloaded

\* C17: in every step, a card that keeps its id has a reviewCount at least
\* as large after the step as before it.
C17_ReviewCountMonotone ==
    [][\A i \in 1..Len(flashcards) : \A j \in 1..Len(flashcards') :
          flashcards'[j].id = flashcards[i].id =>
             flashcards'[j].reviewCount >= flashcards[i].reviewCount]_vars

\* C17 witness: two cards, each toggled, one of them twice.
C17_Witness ==
    /\ Len(flashcards) = 2
    /\ \E i, j \in 1..2 :
          /\ flashcards[i].reviewCount = 1
          /\ flashcards[j].reviewCount = 2

\* C18: no operation stops part-way.  toggleMastered is the operation that
\* can: a toggle that has replaced the card also runs to its end, that is, it
\* adds the card's id to reviewedCards, counts the review in the study session
\* and raises its toast.
C18_NoCrashPath ==
    [][ToggleMastered =>
          /\ Iterable(reviewedCards')
          /\ currentCard.id \in reviewedCards'.ids
          /\ studySession'.cardsReviewed = studySession.cardsReviewed + 1
          /\ toast' \in {"Card mastered!", "Card unmarked"}]_vars

\* a study operation taken from a control of the study screen
ClickStudyOperation ==
    \/ ClickNext
    \/ ClickPrevious
    \/ ClickFlip
    \/ ClickMastered
    \/ \E r \in 0..MaxCards : handleShuffle(r)
    \/ SelectTag(selectedTag')

\* C19: on the mounted study screen, an empty repository shows "No Flashcards
\* Available" and offers no study operation; a repository that is not empty
\* with an empty filtered view shows "All Cards Mastered!", whose only
\* operation on the session is showMastered := TRUE; a study card is shown,
\* and the study operations are offered, only when the filtered view is not
\* empty.
C19_TerminalStates ==
    [][mounted =>
          /\ Len(flashcards) = 0 => screen = "No Flashcards Available"
          /\ (Len(flashcards) > 0 /\ Len(filteredCards) = 0) =>
                screen = "All Cards Mastered!"
          /\ screen = "Study Session" => Len(filteredCards) > 0
          /\ ClickStudyOperation => (Len(flashcards) > 0 /\ Len(filteredCards) > 0)
          /\ ClickReviewMastered =>
                /\ Len(flashcards) > 0 /\ Len(filteredCards) = 0
                /\ showMastered']_vars

\* C19 witness: the study screen is mounted over a repository whose cards
\* are all mastered and hidden.
C19_Witness ==
    /\ mounted
    /\ Len(flashcards) = 2
    /\ ~showMastered
    /\ Len(filteredCards) = 0
    /\ screen = "All Cards Mastered!"

\* the sum of reviewCount over the cards at the positions in idxs
RECURSIVE SumOfReviews(_, _)
SumOfReviews(cards, idxs) ==
    IF idxs = {} THEN 0
    ELSE LET i == CHOOSE k \in idxs : TRUE
         IN  cards[i].reviewCount + SumOfReviews(cards, idxs \ {i})

\* C20: the analytics of the repository give totalReviews = the sum of
\* reviewCount over all cards, reviewedCards = the number of cards with
\* reviewCount > 0, and averageReviews = totalReviews / reviewedCards when
\* reviewedCards > 0 (so that averageReviews * reviewedCards = totalReviews)
\* and 0 when reviewedCards = 0.
C20_Analytics ==
    currentView = "analytics" =>
        LET a == analytics(flashcards)
            reviewed == {i \in 1..Len(flashcards) : flashcards[i].reviewCount > 0}
        IN  /\ a.totalReviews = SumOfReviews(flashcards, 1..Len(flashcards))
            /\ a.reviewedCards = Cardinality(reviewed)
            /\ a.averageReviews.den > 0
            /\ IF Cardinality(reviewed) > 0
               THEN a.averageReviews.num * Cardinality(reviewed)
                        = a.averageReviews.den * a.totalReviews
               ELSE a.averageReviews.num = 0

\* C20 witness: the analytics view over a repository with a card never
\* reviewed and a card reviewed twice.
C20_Witness ==
    /\ currentView = "analytics"
    /\ Len(flashcards) = 2
    /\ analytics(flashcards).reviewedCards = 1
    /\ analytics(flashcards).totalReviews = 2

\* C21: every step that changes the cursor, selectedTag or showMastered
\* ends with isFlipped = FALSE.
C21_MoveHidesAnswer ==
    [][(currentIndex' # currentIndex \/ selectedTag' # selectedTag
        \/ showMastered' # showMastered) => isFlipped' = FALSE]_vars

\* C21 witness: the cursor was moved to the second of two cards and the
\* question side is up.
C21_Witness ==
    /\ mounted
    /\ currentIndex = 1
    /\ localStorage.currentIndex = Item(1)
    /\ Len(filteredCards) = 2
    /\ ~isFlipped
    /\ timers = <<>>

\* C22: a flip request, by a click or by the space key, toggles isFlipped
\* when the filtered view is not empty, and leaves isFlipped and the rest of
\* the session as they are when the filtered view is empty.
C22_FlipOnlyWithCards ==
    [][(ClickFlip \/ KeySpace) =>
          IF Len(filteredCards) > 0
          THEN isFlipped' = ~isFlipped
          ELSE UNCHANGED <<isFlipped, currentIndex, selectedTag, showMastered,
                           reviewedCards, studySession, flashcards>>]_vars

\* C23: with the cursor outside the filtered view there is no current
\* card: a toggleMastered request leaves the repository, reviewedCards and
\* the study session unchanged, stores nothing and schedules no auto-advance.
C23_NoCurrentCardNoToggle ==
    [][((ClickMastered \/ KeyM) /\ ~InBounds) =>
          UNCHANGED <<flashcards, reviewedCards, studySession, timers,
                      localStorage, currentIndex, isFlipped>>]_vars

\* C23 witness: the answer side is up, so that the m key reaches
\* handleMastered, while the cursor is behind the last card of a view that
\* is not empty.
C23_Witness ==
    /\ mounted
    /\ isFlipped
    /\ Len(filteredCards) > 0
    /\ currentIndex >= Len(filteredCards)
    /\ screen = "No Cards Available"

\* C24: with a storage that does not fail, in every state (after the
\* startup seeding, every create and every update) the entry stored under
\* flashmaster-cards is the serialization of the repository in memory.
C24_StoredEqualsMemory ==
    localStorage.cards = Item(StringifyCards(flashcards))

\* C24 witness: the page was reloaded and the repository holds two cards, one
\* of them updated; the stored entry holds the date of the update as a text.
C24_Witness ==
    /\ saved.reloaded
    /\ Len(flashcards) = 2
    /\ localStorage.cards.json
    /\ Len(localStorage.cards.v) = 2
    /\ \E i \in 1..2 :
          /\ flashcards[i].lastReviewed.kind = "Date"
          /\ localStorage.cards.v[i].lastReviewed.kind = "string"

\* C25: a create schedules the first-card notification if and only if the
\* repository was empty immediately before it; a repository that holds a
\* card never becomes empty again, so the notification is scheduled at most
\* once.
C25_FirstCardOnce ==
    [][/\ Len(flashcards') = Len(flashcards) + 1 =>
             firstCardTimer' = firstCardTimer + (IF Len(flashcards) = 0 THEN 1 ELSE 0)
       /\ firstCardTimer' > firstCardTimer => Len(flashcards') = Len(flashcards) + 1
       /\ Len(flashcards) > 0 => Len(flashcards') > 0
       /\ firstCardTimer' <= 1]_vars

\* C25 witness: the notification of the first card has fired, and a second
\* card has just been created without a notification being scheduled.
C25_Witness ==
    /\ currentView = "create"
    /\ Len(flashcards) = 2
    /\ toast = "Flashcard Created!"
    /\ firstCardTimer = 0
    /\ ~saved.reloaded

\* C26: an ArrowRight key press made with the cursor inside the current
\* filtered view never moves it behind the last card of that view.
C26_ArrowRightUsesCurrentView ==
    [][(KeyArrowRight /\ InBounds) => currentIndex' <= Len(filteredCards) - 1]_vars

\* C27: when a card that has a follower in the filtered view is marked
\* mastered and the timeout fires with no event in between, the current card
\* after the firing is that follower.
C27_AdvanceToFollower ==
    [][(/\ TimerFire
        /\ Len(timers) = 1
        /\ Head(timers).live
        /\ toast = "Card mastered!"
        /\ Head(timers).next # <<>>) =>
          (hasCurrentCard' /\ currentCard'.id = Head(timers).next[1])]_vars

\* C28: on the mounted study screen, every step after which the current
\* card is another card than before (or a card where there was none) ends
\* with isFlipped = FALSE.
C28_NewCardShowsQuestion ==
    [][(/\ mounted /\ mounted'
        /\ hasCurrentCard'
        /\ (hasCurrentCard => currentCard'.id # currentCard.id)) =>
          isFlipped' = FALSE]_vars

\* C29: for every card of the repository, mastered is TRUE exactly when
\* reviewCount is odd, and lastReviewed is set exactly when reviewCount > 0.
C29_MasteredIsParity ==
    \A i \in 1..Len(flashcards) :
        /\ flashcards[i].mastered <=> (flashcards[i].reviewCount % 2 = 1)
        /\ (flashcards[i].lastReviewed.kind # "undefined") <=>
              (flashcards[i].reviewCount > 0)

\* the repository holds a card never reviewed, and a card toggled twice while
\* the other one was already there
C29_Witness ==
    /\ Len(flashcards) = 2
    /\ \E i, j \in 1..2 :
          /\ flashcards[i].reviewCount = 0
          /\ ~flashcards[i].mastered
          /\ flashcards[i].lastReviewed.kind = "undefined"
          /\ flashcards[j].reviewCount = 2
          /\ ~flashcards[j].mastered
          /\ flashcards[j].lastReviewed.kind = "Date"

====
